---------------------------- MODULE Spec2Model ----------------------------
(***************************************************************************)
(* A model of bump-workspaces (src/util.ts, src/mod.ts): the commit        *)
(* classifier, the bump aggregator and the version reconciler.             *)
(*                                                                         *)
(* Strings that the program takes apart (version strings, commit           *)
(* subjects) are sequences of tokens; a token is a run of characters the   *)
(* program never splits.  Strings it only compares are TLA+ strings.       *)
(***************************************************************************)
EXTENDS Integers, Sequences, FiniteSets, TLC

\* ------------------------------------------------------------------ bounds

\* The largest major, minor, patch and prerelease number of an input version.
MaxNum == 1

\* The largest number of version bumps passed to summarizeVersionBumpsByModule.
MaxBumps == 3

\* The largest number of module references in the scope of a commit subject.
MaxRefs == 2

\* The largest number of workspace modules passed to getModule.
MaxModules == 2

\* The largest number of commits between start and base.
MaxCommits == 2

\* ------------------------------------------------------------------ state

VARIABLES
    fn,             \* the function the behaviour runs
    pc,             \* where its call is: "start", "returned", "threw"
    argNew,         \* calcVersionDiff: its first argument
    argOld,         \* calcVersionDiff: its second argument
    calcOut,        \* calcVersionDiff: what the call gave
    summary,        \* applyVersionBump: the VersionBumpSummary (mutated by the call)
    module,         \* applyVersionBump: the WorkspaceModule (mutated by the call)
    oldModule,      \* applyVersionBump: the module at `start`, or NoModule
    denoJson,       \* applyVersionBump: the root config text
    dryRun,         \* applyVersionBump: its dryRun argument
    applyOut,       \* applyVersionBump: what the call gave
    files,          \* the module files written by Deno.writeTextFile: path -> version
    given,          \* applyVersionBump: summary.version and module.version as passed
    versionBumps,   \* summarizeVersionBumpsByModule: its argument
    summaries,      \* summarizeVersionBumpsByModule: the VersionBumpSummary[] returned
    commit,         \* defaultParseCommitMessage: the Commit
    workspaceModules, \* defaultParseCommitMessage: the known modules
    parsed,         \* defaultParseCommitMessage: the VersionBump[] or Diagnostic returned
    built,          \* how commit.subject was written: kind(refs): msg
    moduleRef,      \* getModule: the module reference looked up
    found,          \* getModule: the WorkspaceModule returned, or NoModule
    commits,        \* bumpWorkspaces: the commits between start and base
    cursor,         \* bumpWorkspaces: how many commits the loop has taken
    diagnostics,    \* bumpWorkspaces: the Diagnostic[] collected
    applyAgain,     \* applyVersionBump: what a second call gave
    oldModules,     \* bumpWorkspaces: the workspace modules at `start`
    dryRunOption,   \* bumpWorkspaces: the dryRun option: "true", "false" or "git"
    credentials,    \* bumpWorkspaces: the git and GitHub settings found, once read
    ops,            \* bumpWorkspaces: the git commands, GitHub requests and file writes made
    head,           \* the ref the working tree is on
    previousHead,   \* the ref `git checkout -` goes to
    disk,           \* the root deno.json and the release note file on disk
    updates,        \* bumpWorkspaces: the VersionUpdateResult of each module name
    applied         \* bumpWorkspaces: how many summaries the second loop has taken

vars == <<fn, pc, argNew, argOld, calcOut, summary, module, oldModule,
          denoJson, dryRun, applyOut, files, given, versionBumps, summaries,
          commit, workspaceModules, parsed, built, moduleRef, found, commits,
          cursor, diagnostics, applyAgain, oldModules, dryRunOption,
          credentials, ops, head, previousHead, disk, updates, applied>>

\* ------------------------------------------------------------ @std/semver

\* Decimal numerals: the text of the numbers a version string holds.
Numerals == <<"0", "1", "2", "3", "4", "5", "6", "7", "8", "9">>

FormatNumber(n) == Numerals[n + 1]

IsNumeric(t) == \E i \in 1..Len(Numerals) : Numerals[i] = t

ParseNumber(t) == (CHOOSE i \in 1..Len(Numerals) : Numerals[i] = t) - 1

\* One prerelease identifier: a number or a string.
NumId(n) == [isNum |-> TRUE, n |-> n, s |-> ""]
StrId(s) == [isNum |-> FALSE, n |-> 0, s |-> s]

\* The index of the first token t of s, or 0.
IndexOf(s, t) ==
    IF \E i \in 1..Len(s) : s[i] = t
    THEN CHOOSE i \in 1..Len(s) : s[i] = t /\ \A j \in 1..(i - 1) : s[j] # t
    ELSE 0

\* The identifiers of a dot-separated token list: id . id . id
RECURSIVE SplitDots(_)
SplitDots(s) ==
    IF s = <<>> THEN <<>>
    ELSE IF Len(s) = 1 THEN <<s[1]>>
    ELSE <<s[1]>> \o SplitDots(SubSeq(s, 3, Len(s)))

RECURSIVE JoinDots(_)
JoinDots(ids) ==
    IF ids = <<>> THEN <<>>
    ELSE IF Len(ids) = 1 THEN <<ids[1]>>
    ELSE <<ids[1], ".">> \o JoinDots(Tail(ids))

ParsePrerelease(s) ==
    LET ids == SplitDots(s)
    IN  [i \in 1..Len(ids) |->
            IF IsNumeric(ids[i]) THEN NumId(ParseNumber(ids[i])) ELSE StrId(ids[i])]

FormatPrerelease(pre) ==
    JoinDots([i \in 1..Len(pre) |->
                 IF pre[i].isNum THEN FormatNumber(pre[i].n) ELSE pre[i].s])

\* parse(): major.minor.patch, then -prerelease and +build, each optional.
ParseSemVer(s) ==
    LET plus  == IndexOf(s, "+")
        core  == IF plus = 0 THEN s ELSE SubSeq(s, 1, plus - 1)
        bld   == IF plus = 0 THEN <<>> ELSE SubSeq(s, plus + 1, Len(s))
        preT  == IF Len(core) > 5 /\ core[6] = "-"
                 THEN SubSeq(core, 7, Len(core)) ELSE <<>>
    IN  [major      |-> ParseNumber(core[1]),
         minor      |-> ParseNumber(core[3]),
         patch      |-> ParseNumber(core[5]),
         prerelease |-> ParsePrerelease(preT),
         build      |-> SplitDots(bld)]

\* format(): the inverse of parse on the versions parse accepts.
FormatSemver(v) ==
    <<FormatNumber(v.major), ".", FormatNumber(v.minor), ".", FormatNumber(v.patch)>>
    \o (IF v.prerelease = <<>> THEN <<>> ELSE <<"-">> \o FormatPrerelease(v.prerelease))
    \o (IF v.build = <<>> THEN <<>> ELSE <<"+">> \o JoinDots(v.build))

\* bumpPrerelease() without an identifier: the last numeric identifier plus
\* one, or a 0 appended when no identifier is numeric.
BumpPrerelease(pre) ==
    IF \E i \in 1..Len(pre) : pre[i].isNum
    THEN LET k == CHOOSE i \in 1..Len(pre) :
                      pre[i].isNum /\ \A j \in (i + 1)..Len(pre) : ~pre[j].isNum
         IN  [pre EXCEPT ![k] = NumId(pre[k].n + 1)]
    ELSE Append(pre, NumId(0))

\* An increment that leaves the version as it is.
IncrementNothing(v, release) == v

\* increment(version, release) for the four release types the program uses.
Increment(v, release) ==
    LET isPre == v.prerelease # <<>>
    IN  CASE release = "major" ->
               [v EXCEPT !.major = IF ~isPre \/ v.minor # 0 \/ v.patch # 0
                                   THEN v.major + 1 ELSE v.major,
                         !.minor = 0, !.patch = 0, !.prerelease = <<>>]
          [] release = "minor" ->
               [v EXCEPT !.minor = IF ~isPre \/ v.patch # 0
                                   THEN v.minor + 1 ELSE v.minor,
                         !.patch = 0, !.prerelease = <<>>]
          [] release = "patch" ->
               [v EXCEPT !.patch = IF ~isPre THEN v.patch + 1 ELSE v.patch,
                         !.prerelease = <<>>]
          [] release = "prerelease" ->
               [v EXCEPT !.patch = IF ~isPre THEN v.patch + 1 ELSE v.patch,
                         !.prerelease = BumpPrerelease(v.prerelease)]

\* ------------------------------------------------------ calcVersionDiff

HasPrerelease(version) == Len(version.prerelease) > 0

\* What a call gives: a value, or the Error it throws.
Returned(d) == [threw |-> FALSE, diff |-> d]
Threw == [threw |-> TRUE, diff |-> "none"]

\* Mutant: a number that shrank does not count as a difference.
CalcVersionDiffGrowth(newStr, oldStr) ==
    LET newVersion == ParseSemVer(newStr)
        oldVersion == ParseSemVer(oldStr)
    IN  IF HasPrerelease(newVersion) THEN Returned("prerelease")
        ELSE IF newVersion.major > oldVersion.major THEN Returned("major")
        ELSE IF newVersion.minor > oldVersion.minor THEN Returned("minor")
        ELSE IF newVersion.patch > oldVersion.patch THEN Returned("patch")
        ELSE Threw

CalcVersionDiff(newStr, oldStr) ==
    LET newVersion == ParseSemVer(newStr)
        oldVersion == ParseSemVer(oldStr)
    IN  IF HasPrerelease(newVersion) THEN Returned("prerelease")
        ELSE IF newVersion.major # oldVersion.major THEN Returned("major")
        ELSE IF newVersion.minor # oldVersion.minor THEN Returned("minor")
        ELSE IF newVersion.patch # oldVersion.patch THEN Returned("patch")
        ELSE IF /\ HasPrerelease(oldVersion) /\ ~HasPrerelease(newVersion)
                /\ newVersion.major = oldVersion.major
                /\ newVersion.minor = oldVersion.minor
                /\ newVersion.patch = oldVersion.patch
             THEN IF newVersion.patch # 0 THEN Returned("patch")
                  ELSE IF newVersion.minor # 0 THEN Returned("minor")
                  ELSE IF newVersion.major # 0 THEN Returned("major")
                  ELSE Threw
        ELSE Threw

\* ------------------------------------------------------------ the inputs

Nums == 0..MaxNum

\* The lists of at most n elements of S.
SeqsUpTo(S, n) == UNION {[1..k -> S] : k \in 0..n}

\* The prerelease components of the input versions: none, a word, a word
\* with a counter, a counter followed by a word, two counters.
Prereleases ==
    {<<>>, <<StrId("rc")>>}
    \cup {<<StrId("rc"), NumId(n)>> : n \in Nums}
    \cup {<<NumId(n), StrId("rc")>> : n \in Nums}
    \cup {<<NumId(1), NumId(0)>>}

Builds == {<<>>, <<"b">>}

SemVers ==
    [major : Nums, minor : Nums, patch : Nums,
     prerelease : Prereleases, build : Builds]

\* The version strings a deno.json may hold.
VersionStrs == {FormatSemver(v) : v \in SemVers}

\* The versions of the module at `start` that differ from the one at `base`:
\* releases and prereleases without build metadata.
OldVersionStrs ==
    {FormatSemver(v) : v \in {w \in SemVers : /\ w.build = <<>>
                                               /\ w.prerelease \in {<<>>, <<StrId("rc")>>}}}

ZeroVersionStr == <<"0", ".", "0", ".", "0">>

NoModule == [name |-> "", version |-> <<>>, path |-> ""]
NoSummary == [module |-> "", version |-> "none", commits |-> <<>>]
NoGiven == [summaryVersion |-> "none", moduleVersion |-> <<>>]
NoCommit == [hash |-> "", subject |-> <<>>]
NoParsed == [isArray |-> FALSE, bumps |-> <<>>, type |-> "none"]
NoBuilt == [kind |-> "", refs |-> <<>>, sep |-> <<>>, msg |-> <<>>]
NoApply == [threw |-> FALSE, denoJson |-> <<>>, from |-> <<>>, to |-> <<>>,
            diff |-> "none"]

\* No git or GitHub setting has been read.
NoCredentials == [read |-> FALSE, have |-> {}]

\* No root deno.json and no release note file.
NoDisk == [root |-> <<>>, noteExists |-> FALSE, note |-> <<>>]

\* The state of bumpWorkspaces and of a second call while another function
\* is run.
Idle ==
    /\ applyAgain = NoApply
    /\ oldModules = <<>>
    /\ dryRunOption = "false"
    /\ credentials = NoCredentials
    /\ ops = <<>>
    /\ head = ""
    /\ previousHead = ""
    /\ disk = NoDisk
    /\ updates = <<>>
    /\ applied = 0

\* The same variables left as they are.
IdleFrame ==
    UNCHANGED <<applyAgain, oldModules, dryRunOption, credentials, ops,
                head, previousHead, disk, updates, applied>>

\* The state of defaultParseCommitMessage while another function is run.
ParseIdle ==
    /\ commit = NoCommit
    /\ workspaceModules = <<>>
    /\ parsed = NoParsed
    /\ built = NoBuilt

\* ----------------------------------------------- specification SpecCalc
\* calcVersionDiff applied to every pair of version strings.

InitCalc ==
    /\ fn = "calcVersionDiff"
    /\ pc = "start"
    /\ Idle
    /\ moduleRef = ""
    /\ found = NoModule
    /\ commits = <<>>
    /\ cursor = 0
    /\ diagnostics = <<>>
    /\ argNew \in VersionStrs
    /\ argOld \in VersionStrs
    /\ calcOut = Returned("none")
    /\ summary = NoSummary
    /\ module = NoModule
    /\ oldModule = NoModule
    /\ denoJson = <<>>
    /\ dryRun = FALSE
    /\ applyOut = NoApply
    /\ files = <<>>
    /\ given = NoGiven
    /\ versionBumps = <<>>
    /\ summaries = <<>>
    /\ ParseIdle

CallCalcVersionDiff ==
    /\ fn = "calcVersionDiff"
    /\ pc = "start"
    /\ IdleFrame
    /\ calcOut' = CalcVersionDiff(argNew, argOld)
    /\ pc' = IF calcOut'.threw THEN "threw" ELSE "returned"
    /\ UNCHANGED <<fn, moduleRef, found, commits, cursor, diagnostics,
                   argNew, argOld, summary, module, oldModule,
                   denoJson, dryRun, applyOut, files, given, versionBumps, summaries,
          commit, workspaceModules, parsed, built>>

NextCalc == CallCalcVersionDiff

SpecCalc == InitCalc /\ [][NextCalc]_vars


\* ------------------------------------------------------ applyVersionBump

VersionUpdates == {"major", "minor", "patch"}

\* Mutant: no downgrade for 0.x.y.
FinalDiffNoDowngrade(currentVersion, summaryVersion) ==
    IF Len(currentVersion.prerelease) > 0 THEN "prerelease" ELSE summaryVersion

\* Mutant: the 0.x.y rule is tried before the prerelease rule.
FinalDiffZeroFirst(currentVersion, summaryVersion) ==
    IF currentVersion.major = 0
    THEN IF summaryVersion = "major" THEN "minor"
         ELSE IF summaryVersion = "minor" THEN "patch"
         ELSE summaryVersion
    ELSE IF Len(currentVersion.prerelease) > 0 THEN "prerelease"
    ELSE summaryVersion

\* The version bump type after the prerelease and the 0.x.y rules.
FinalDiff(currentVersion, summaryVersion) ==
    IF Len(currentVersion.prerelease) > 0 THEN "prerelease"
    ELSE IF currentVersion.major = 0
         THEN IF summaryVersion = "major" THEN "minor"
              ELSE IF summaryVersion = "minor" THEN "patch"
              ELSE summaryVersion
    ELSE summaryVersion

\* A token that is one character of the text.
IsOneChar(t) == t # "rc"

\* new RegExp(pattern) run at the start of text: the numbers of tokens it can
\* take.  In the pattern "." stands for any character and "+" repeats the
\* token before it; the other tokens of a version string stand for themselves.
RECURSIVE MatchEnds(_, _, _, _)
MatchEnds(p, t, i, j) ==
    IF i > Len(p) THEN {j}
    ELSE LET AtomOK(k) == /\ k <= Len(t)
                          /\ IF p[i] = "." THEN IsOneChar(t[k]) ELSE t[k] = p[i]
         IN  IF i < Len(p) /\ p[i + 1] = "+"
             THEN UNION {MatchEnds(p, t, i + 2, k) :
                           k \in {k \in (j + 1)..Len(t) :
                                     \A m \in (j + 1)..k : AtomOK(m)}}
             ELSE IF AtomOK(j + 1) THEN MatchEnds(p, t, i + 1, j + 1) ELSE {}

Max(S) == CHOOSE x \in S : \A y \in S : y <= x

\* denoJson.replace(new RegExp(`${name}@([^~]?)${current}`, "g"), `${name}@$1${new}`)
\* on a text whose import entries are name@<range char><version>.
ReplaceImports(text, name, currentVersionStr, newVersionStr) ==
    [i \in 1..Len(text) |->
        LET e    == text[i]
            ends == MatchEnds(currentVersionStr, e.version, 1, 0)
        IN  IF e.name = name /\ e.range # "~" /\ ends # {}
            THEN [e EXCEPT !.version =
                     newVersionStr \o SubSeq(e.version, Max(ends) + 1, Len(e.version))]
            ELSE e]

\* What applyVersionBump gives and leaves behind: the returned pair (or the
\* Error thrown), the module and the summary objects after the call, and
\* whether the module's file was written.
ApplyThrew(summary_, module_) ==
    [threw |-> TRUE, denoJson |-> <<>>, from |-> <<>>, to |-> <<>>,
     diff |-> "none", module |-> module_, summary |-> summary_, wrote |-> FALSE]

\* The module is newly added or its version manually updated: the diff of
\* the module's version against fromStr, nothing incremented or written.
ApplyGivenVersion(summary_, module_, fromStr, denoJson_) ==
    LET d == CalcVersionDiff(module_.version, fromStr)
    IN  IF d.threw THEN ApplyThrew(summary_, module_)
        ELSE [threw |-> FALSE, denoJson |-> denoJson_, from |-> fromStr,
              to |-> module_.version, diff |-> d.diff, module |-> module_,
              summary |-> [summary_ EXCEPT !.version = d.diff],
              wrote |-> FALSE]

\* Mutant: the version is incremented by the summary's version, the diff
\* returned is the final one.
ApplyIncrementBySummary(summary_, module_, denoJson_, dryRun_) ==
    LET currentVersionStr == module_.version
        currentVersion    == ParseSemVer(currentVersionStr)
        diff              == FinalDiff(currentVersion, summary_.version)
        newVersion        == Increment(currentVersion,
                                 IF Len(currentVersion.prerelease) > 0
                                 THEN "prerelease" ELSE summary_.version)
        newVersionStr     == FormatSemver(newVersion)
    IN  [threw |-> FALSE,
         denoJson |-> ReplaceImports(denoJson_, module_.name,
                                     currentVersionStr, newVersionStr),
         from |-> currentVersionStr, to |-> newVersionStr, diff |-> diff,
         module |-> [module_ EXCEPT !.version = newVersionStr],
         summary |-> [summary_ EXCEPT !.version = diff],
         wrote |-> ~dryRun_]

\* The snapshot has the module's version: the version is incremented.
ApplyIncrement(summary_, module_, denoJson_, dryRun_) ==
    LET currentVersionStr == module_.version
        currentVersion    == ParseSemVer(currentVersionStr)
        diff              == FinalDiff(currentVersion, summary_.version)
        newVersion        == Increment(currentVersion, diff)
        newVersionStr     == FormatSemver(newVersion)
    IN  [threw |-> FALSE,
         denoJson |-> ReplaceImports(denoJson_, module_.name,
                                     currentVersionStr, newVersionStr),
         from |-> currentVersionStr, to |-> newVersionStr, diff |-> diff,
         module |-> [module_ EXCEPT !.version = newVersionStr],
         summary |-> [summary_ EXCEPT !.version = diff],
         wrote |-> ~dryRun_]

\* Mutant: a snapshot with another version is not taken for a manual update.
ApplyVersionBumpNoManual(summary_, module_, oldModule_, denoJson_, dryRun_) ==
    IF oldModule_ = NoModule
    THEN ApplyGivenVersion(summary_, module_, ZeroVersionStr, denoJson_)
    ELSE ApplyIncrement(summary_, module_, denoJson_, dryRun_)

ApplyVersionBump(summary_, module_, oldModule_, denoJson_, dryRun_) ==
    IF oldModule_ = NoModule
    THEN ApplyGivenVersion(summary_, module_, ZeroVersionStr, denoJson_)
    ELSE IF oldModule_.version # module_.version
    THEN ApplyGivenVersion(summary_, module_, oldModule_.version, denoJson_)
    ELSE ApplyIncrement(summary_, module_, denoJson_, dryRun_)

\* ---------------------------------------------- specification SpecApply
\* applyVersionBump applied to every module version, every snapshot of the
\* module at `start` (or none) and every aggregated version.

ModuleAt(v) == [name |-> "@scope/foo", version |-> v, path |-> "foo/deno.json"]

\* The root deno.json at `base`: the module imported with a caret range and
\* with a tilde range, and another module at the same version.
DenoJsonAt(v) ==
    <<[name |-> "@scope/foo", range |-> "^", version |-> v],
      [name |-> "@scope/bar", range |-> "^", version |-> v],
      [name |-> "@scope/foo", range |-> "~", version |-> v]>>

InitApply ==
    /\ fn = "applyVersionBump"
    /\ pc = "start"
    /\ Idle
    /\ moduleRef = ""
    /\ found = NoModule
    /\ commits = <<>>
    /\ cursor = 0
    /\ diagnostics = <<>>
    /\ argNew = <<>>
    /\ argOld = <<>>
    /\ calcOut = Returned("none")
    /\ \E v \in VersionStrs : module = ModuleAt(v)
    /\ \E sv \in VersionUpdates :
          summary = [module |-> "foo", version |-> sv, commits |-> <<>>]
    /\ oldModule \in {NoModule, module} \cup {ModuleAt(v) : v \in OldVersionStrs}
    /\ denoJson = DenoJsonAt(module.version)
    /\ dryRun \in BOOLEAN
    /\ applyOut = NoApply
    /\ files = [p \in {module.path} |-> module.version]
    /\ given = [summaryVersion |-> summary.version, moduleVersion |-> module.version]
    /\ versionBumps = <<>>
    /\ summaries = <<>>
    /\ ParseIdle

CallApplyVersionBump ==
    /\ fn = "applyVersionBump"
    /\ pc = "start"
    /\ IdleFrame
    /\ LET r == ApplyVersionBump(summary, module, oldModule, denoJson, dryRun)
       IN  /\ applyOut' = [threw |-> r.threw, denoJson |-> r.denoJson,
                           from |-> r.from, to |-> r.to, diff |-> r.diff]
           /\ module' = r.module
           /\ summary' = r.summary
           /\ files' = IF r.wrote
                       THEN [files EXCEPT ![r.module.path] = r.module.version]
                       ELSE files
           /\ pc' = IF r.threw THEN "threw" ELSE "returned"
    /\ UNCHANGED <<fn, moduleRef, found, commits, cursor, diagnostics,
                   argNew, argOld, calcOut, oldModule, denoJson, dryRun,
                   given, versionBumps, summaries, commit, workspaceModules,
                   parsed, built>>

\* A second call with the module object and the text the first call left,
\* the same snapshot, and a summary of any version.
SecondCall(sv) ==
    ApplyVersionBump([summary EXCEPT !.version = sv], module, oldModule,
                     applyOut.denoJson, dryRun)

CallApplyVersionBumpAgain ==
    /\ fn = "applyVersionBump"
    /\ pc = "returned"
    /\ \E sv \in VersionUpdates :
          /\ applyAgain' = [threw |-> SecondCall(sv).threw,
                            denoJson |-> SecondCall(sv).denoJson,
                            from |-> SecondCall(sv).from, to |-> SecondCall(sv).to,
                            diff |-> SecondCall(sv).diff]
          /\ module' = SecondCall(sv).module
          /\ summary' = SecondCall(sv).summary
          /\ files' = IF SecondCall(sv).wrote
                      THEN [files EXCEPT ![module'.path] = module'.version]
                      ELSE files
          /\ pc' = IF applyAgain'.threw THEN "threw again" ELSE "returned again"
    /\ UNCHANGED <<fn, moduleRef, found, commits, cursor, diagnostics,
                   argNew, argOld, calcOut, oldModule, denoJson, dryRun,
                   given, versionBumps, summaries, commit, workspaceModules,
                   parsed, built, applyOut, oldModules, dryRunOption,
                   credentials, ops, head, previousHead, disk, updates,
                   applied>>

NextApply == CallApplyVersionBump

SpecApply == InitApply /\ [][NextApply]_vars

\* applyVersionBump called once, then once more on what the call left.
NextApplyTwice == CallApplyVersionBump \/ CallApplyVersionBumpAgain

SpecApplyTwice == InitApply /\ [][NextApplyTwice]_vars


\* ---------------------------------------- summarizeVersionBumpsByModule

\* The keys of TAG_TO_VERSION in the order they are written.
TAG_PRIORITY ==
    <<"BREAKING", "feat", "deprecation", "fix", "perf", "docs", "style",
      "refactor", "test", "chore">>

Tags == {TAG_PRIORITY[i] : i \in 1..Len(TAG_PRIORITY)}

\* TAG_TO_VERSION[tag] for a tag of the table.
TagToVersion(tag) ==
    IF tag = "BREAKING" THEN "major" ELSE IF tag = "feat" THEN "minor" ELSE "patch"

\* TAG_PRIORITY.indexOf(tag): -1 for a tag that is not in the table.
PriorityOf(tag) ==
    IF tag \in Tags
    THEN (CHOOSE i \in 1..Len(TAG_PRIORITY) : TAG_PRIORITY[i] = tag) - 1
    ELSE -1

\* Mutant: the later version wins.
MaxVersionLatest(v0, v1) == v1

MaxVersion(v0, v1) ==
    IF v0 = "major" \/ v1 = "major" THEN "major"
    ELSE IF v0 = "minor" \/ v1 = "minor" THEN "minor"
    ELSE "patch"

\* The module strings of the version bumps, in ascending order of their
\* UTF-16 code units ("@" < "b" < "f"): a < b on strings.
ModuleStrs == <<"@scope/bar", "@scope/foo", "bar", "foo">>

StrRank(str) == CHOOSE i \in 1..Len(ModuleStrs) : ModuleStrs[i] = str

StrLess(a, b) == StrRank(a) < StrRank(b)

\* An insertion that puts x before the elements of its key.
RECURSIVE InsertBeforeEqual(_, _)
InsertBeforeEqual(sorted, x) ==
    IF sorted = <<>> THEN <<x>>
    ELSE IF x.key <= Head(sorted).key THEN <<x>> \o sorted
    ELSE <<Head(sorted)>> \o InsertBeforeEqual(Tail(sorted), x)

\* Array.prototype.sort (a stable sort) of elements [key, val] by their key:
\* x goes before the first element with a greater key, after the others.
RECURSIVE InsertSorted(_, _)
InsertSorted(sorted, x) ==
    IF sorted = <<>> THEN <<x>>
    ELSE IF x.key < Head(sorted).key THEN <<x>> \o sorted
    ELSE <<Head(sorted)>> \o InsertSorted(Tail(sorted), x)

RECURSIVE SortByKey(_)
SortByKey(seq) ==
    IF seq = <<>> THEN <<>>
    ELSE InsertSorted(SortByKey(SubSeq(seq, 1, Len(seq) - 1)), seq[Len(seq)])

\* summary.commits.sort(...): by the priority of the tag.
SortCommits(commits_) ==
    LET keyed == SortByKey([i \in 1..Len(commits_) |->
                     [key |-> PriorityOf(commits_[i].tag), val |-> commits_[i]]])
    IN  [i \in 1..Len(keyed) |-> keyed[i].val]

\* The summaries left in the order their modules were first seen.
FirstSeenOrder(sums) == sums

\* Object.values(result).sort((a, b) => a.module < b.module ? -1 : 1): the
\* modules of `result` are distinct, so this is the order of the strings.
SortSummaries(result) ==
    LET keyed == SortByKey([i \in 1..Len(result) |->
                     [key |-> StrRank(result[i].module), val |-> result[i]]])
    IN  [i \in 1..Len(keyed) |-> keyed[i].val]

\* The first loop: `result` after the version bumps 1..n, its values in the
\* order the keys were added.
RECURSIVE CollectBumps(_, _)
CollectBumps(bumps, n) ==
    IF n = 0 THEN <<>>
    ELSE LET result      == CollectBumps(bumps, n - 1)
             versionBump == bumps[n]
             at          == {i \in 1..Len(result) : result[i].module = versionBump.module}
             c           == [commit |-> versionBump.commit, tag |-> versionBump.tag]
         IN  IF at = {}
             THEN Append(result,
                         [module  |-> versionBump.module,
                          version |-> MaxVersion(versionBump.version, versionBump.version),
                          commits |-> <<c>>])
             ELSE LET i == CHOOSE i \in at : TRUE
                  IN  [result EXCEPT
                          ![i].version = MaxVersion(result[i].version, versionBump.version),
                          ![i].commits = Append(result[i].commits, c)]

SummarizeVersionBumpsByModule(bumps) ==
    LET result == CollectBumps(bumps, Len(bumps))
        sorted == [i \in 1..Len(result) |->
                      [result[i] EXCEPT !.commits = SortCommits(result[i].commits)]]
    IN  SortSummaries(sorted)

\* ------------------------------------------------ specification SpecSum
\* summarizeVersionBumpsByModule applied to every list of version bumps.

BumpModules == {"@scope/foo", "foo"}
BumpTags == {"BREAKING", "feat", "fix", "chore"}
Hashes == {"c1", "c2"}

\* The version bumps defaultParseCommitMessage makes.
Bumps ==
    {[module |-> mo, tag |-> t, version |-> TagToVersion(t), commit |-> h] :
        mo \in BumpModules, t \in BumpTags, h \in Hashes}

InitSum ==
    /\ fn = "summarizeVersionBumpsByModule"
    /\ pc = "start"
    /\ Idle
    /\ moduleRef = ""
    /\ found = NoModule
    /\ commits = <<>>
    /\ cursor = 0
    /\ diagnostics = <<>>
    /\ argNew = <<>>
    /\ argOld = <<>>
    /\ calcOut = Returned("none")
    /\ summary = NoSummary
    /\ module = NoModule
    /\ oldModule = NoModule
    /\ denoJson = <<>>
    /\ dryRun = FALSE
    /\ applyOut = NoApply
    /\ files = <<>>
    /\ given = NoGiven
    /\ versionBumps \in SeqsUpTo(Bumps, MaxBumps)
    /\ summaries = <<>>
    /\ ParseIdle

CallSummarize ==
    /\ fn = "summarizeVersionBumpsByModule"
    /\ pc = "start"
    /\ IdleFrame
    /\ summaries' = SummarizeVersionBumpsByModule(versionBumps)
    /\ pc' = "returned"
    /\ UNCHANGED <<fn, moduleRef, found, commits, cursor, diagnostics,
                   argNew, argOld, calcOut, summary, module, oldModule,
                   denoJson, dryRun, applyOut, files, given, versionBumps, commit,
                   workspaceModules, parsed, built>>

NextSum == CallSummarize

SpecSum == InitSum /\ [][NextSum]_vars

\* --------------------------------------------- defaultParseCommitMessage

\* The text of a sequence of tokens.
RECURSIVE Concat(_)
Concat(tokens) == IF tokens = <<>> THEN "" ELSE Head(tokens) \o Concat(Tail(tokens))

\* The number of leading tokens of s that [^:()]+ takes.
RECURSIVE KindLen(_)
KindLen(s) ==
    IF s = <<>> \/ Head(s) \in {":", "(", ")"} THEN 0 ELSE 1 + KindLen(Tail(s))

NoMatch == [matched |-> FALSE, tag |-> <<>>, hasModule |-> FALSE, module |-> <<>>]

\* RE_DEFAULT_PATTERN.exec(subject): /^([^:()]+)(?:\((.+)\))?: (.*)$/.  The
\* first group runs to the first ":", "(" or ")".  After a "(" the greedy
\* (.+) runs to the last ")" that is followed by ": ".
ExecDefaultPattern(subject) ==
    LET n      == KindLen(subject)
        closes == {k \in (n + 3)..(Len(subject) - 2) :
                      /\ subject[k] = ")"
                      /\ subject[k + 1] = ":"
                      /\ subject[k + 2] = " "}
    IN  IF n = 0 \/ n = Len(subject) THEN NoMatch
        ELSE IF subject[n + 1] = "("
        THEN IF closes = {} THEN NoMatch
             ELSE [matched |-> TRUE, tag |-> SubSeq(subject, 1, n), hasModule |-> TRUE,
                   module |-> SubSeq(subject, n + 2, Max(closes) - 1)]
        ELSE IF subject[n + 1] = ":" /\ n + 2 <= Len(subject) /\ subject[n + 2] = " "
        THEN [matched |-> TRUE, tag |-> SubSeq(subject, 1, n), hasModule |-> FALSE,
              module |-> <<>>]
        ELSE NoMatch

\* The number of " " tokens of s from position i on.
RECURSIVE SpacesFrom(_, _)
SpacesFrom(s, i) == IF i <= Len(s) /\ s[i] = " " THEN 1 + SpacesFrom(s, i + 1) ELSE 0

\* module.split(/\s*,\s*/): the separator is a comma with the spaces around it.
RECURSIVE SplitCommas(_)
SplitCommas(s) ==
    LET starts == {i \in 1..Len(s) :
                      LET j == i + SpacesFrom(s, i) IN j <= Len(s) /\ s[j] = ","}
    IN  IF starts = {} THEN <<s>>
        ELSE LET i == CHOOSE i \in starts : \A k \in starts : i <= k
                 j == i + SpacesFrom(s, i)
                 e == j + SpacesFrom(s, j + 1)
             IN  <<SubSeq(s, 1, i - 1)>> \o SplitCommas(SubSeq(s, e + 1, Len(s)))

\* A list of required tags that leaves perf out.
RangeRequiredWithoutPerf == {"BREAKING", "feat", "fix", "deprecation"}

DEFAULT_RANGE_REQUIRED == {"BREAKING", "feat", "fix", "perf", "deprecation"}

\* The property names every object inherits from Object.prototype:
\* TAG_TO_VERSION[name] is a function or an object, not undefined.
ObjectPrototypeKeys ==
    {"constructor", "toString", "valueOf", "hasOwnProperty", "isPrototypeOf",
     "propertyIsEnumerable", "toLocaleString", "__proto__"}

\* TAG_TO_VERSION[tag]
TagVersionLookup(tag) ==
    IF tag \in Tags THEN TagToVersion(tag)
    ELSE IF tag \in ObjectPrototypeKeys THEN "inherited"
    ELSE "undefined"

Diagnostic(type) == [isArray |-> FALSE, bumps |-> <<>>, type |-> type]

DefaultParseCommitMessage(commit_, workspaceModules_) ==
    LET match == ExecDefaultPattern(commit_.subject)
        tag   == Concat(match.tag)
        refs  == IF match.hasModule /\ match.module = <<"*">>
                 THEN [i \in 1..Len(workspaceModules_) |-> workspaceModules_[i].name]
                 ELSE IF match.hasModule
                 THEN LET pieces == SplitCommas(match.module)
                      IN  [i \in 1..Len(pieces) |-> Concat(pieces[i])]
                 ELSE <<>>
        version == TagVersionLookup(tag)
    IN  IF ~match.matched THEN Diagnostic("unknown_commit")
        ELSE IF Len(refs) = 0
        THEN IF tag \in DEFAULT_RANGE_REQUIRED THEN Diagnostic("missing_range")
             ELSE Diagnostic("skipped_commit")
        ELSE IF version = "undefined" THEN Diagnostic("unknown_commit")
        ELSE [isArray |-> TRUE,
              bumps |-> [i \in 1..Len(refs) |->
                            [module |-> refs[i], tag |-> tag, version |-> version,
                             commit |-> commit_.hash]],
              type |-> "none"]

\* ---------------------------------------------- specification SpecParse
\* defaultParseCommitMessage applied to the subjects kind(refs): msg and
\* kind: msg.

\* The kinds: the tags of the table, and two that are not in it.
Kinds == Tags \cup {"hey", "constructor"}

RefWords == {"foo", "bar", "*", "foo/unstable", "unstable/foo"}

\* What separates two references of a scope.
Seps == {<<",">>, <<",", " ">>, <<" ", ",">>}

\* The messages: a word, nothing, and two that hold "): ".
Msgs ==
    {<<"msg">>, <<>>, <<"a", ")", ":", " ", "b">>,
     <<"(", "b", ",", "c", ")", ":", " ", "d">>}

RECURSIVE JoinWith(_, _)
JoinWith(refs, sep) ==
    IF refs = <<>> THEN <<>>
    ELSE IF Len(refs) = 1 THEN <<refs[1]>>
    ELSE <<refs[1]>> \o sep \o JoinWith(Tail(refs), sep)

\* The subject kind(r1,...,rn): msg, or kind: msg without references.
SubjectOf(b) ==
    <<b.kind>>
    \o (IF b.refs = <<>> THEN <<>> ELSE <<"(">> \o JoinWith(b.refs, b.sep) \o <<")">>)
    \o <<":", " ">> \o b.msg

WorkspaceModule(name) == [name |-> name, version |-> ZeroVersionStr, path |-> ""]

WorkspaceModuleLists ==
    {<<>>, <<WorkspaceModule("foo")>>,
     <<WorkspaceModule("foo"), WorkspaceModule("bar")>>,
     <<WorkspaceModule("@scope/bar"), WorkspaceModule("@scope/foo")>>}

InitParse ==
    /\ fn = "defaultParseCommitMessage"
    /\ pc = "start"
    /\ Idle
    /\ moduleRef = ""
    /\ found = NoModule
    /\ commits = <<>>
    /\ cursor = 0
    /\ diagnostics = <<>>
    /\ argNew = <<>>
    /\ argOld = <<>>
    /\ calcOut = Returned("none")
    /\ summary = NoSummary
    /\ module = NoModule
    /\ oldModule = NoModule
    /\ denoJson = <<>>
    /\ dryRun = FALSE
    /\ applyOut = NoApply
    /\ files = <<>>
    /\ given = NoGiven
    /\ versionBumps = <<>>
    /\ summaries = <<>>
    /\ built \in [kind : Kinds, refs : SeqsUpTo(RefWords, MaxRefs), sep : Seps,
                  msg : Msgs]
    /\ commit = [hash |-> "c1", subject |-> SubjectOf(built)]
    /\ workspaceModules \in WorkspaceModuleLists
    /\ parsed = NoParsed

CallParseCommitMessage ==
    /\ fn = "defaultParseCommitMessage"
    /\ pc = "start"
    /\ IdleFrame
    /\ parsed' = DefaultParseCommitMessage(commit, workspaceModules)
    /\ pc' = "returned"
    /\ UNCHANGED <<fn, moduleRef, found, commits, cursor, diagnostics,
                   argNew, argOld, calcOut, summary, module, oldModule,
                   denoJson, dryRun, applyOut, files, given, versionBumps,
                   summaries, commit, workspaceModules, built>>

NextParse == CallParseCommitMessage

SpecParse == InitParse /\ [][NextParse]_vars

\* ---------------------------------------------------------- getModule

\* name.endsWith(suffix), on the characters of the two strings.
EndsWith(name, suffix) ==
    /\ Len(suffix) <= Len(name)
    /\ SubSeq(name, Len(name) - Len(suffix) + 1, Len(name)) = suffix

\* A lookup that takes the short reference only.
GetModuleMatchesExact(ref, m) == m.name = ref

\* The predicate of modules.find in getModule.
GetModuleMatches(ref, m) == m.name = ref \/ EndsWith(m.name, "/" \o ref)

\* getModule(module, modules): modules.find gives the first module that
\* satisfies the predicate, or undefined (NoModule).
GetModule(ref, modules) ==
    LET hits == {i \in 1..Len(modules) : GetModuleMatches(ref, modules[i])}
    IN  IF hits = {} THEN NoModule
        ELSE modules[CHOOSE i \in hits : \A k \in hits : i <= k]

\* checkModuleName returning undefined: no diagnostic.
NoDiagnostic == [type |-> "none", commit |-> "", module |-> ""]

\* checkModuleName(versionBump, modules): undefined for a known module, else
\* the unknown_range_commit diagnostic of the bump's commit.
CheckModuleName(versionBump, modules) ==
    IF GetModule(versionBump.module, modules) # NoModule THEN NoDiagnostic
    ELSE [type |-> "unknown_range_commit", commit |-> versionBump.commit,
          module |-> versionBump.module]

\* ------------------------------------------------ specification SpecGet
\* getModule applied to a reference and a list of workspace modules.

ModuleNames == {"foo", "bar", "@scope/foo", "@scope/bar", "@other/foo", "xfoo"}

ModuleRefs == {"foo", "bar", "@scope/foo", "scope/foo", "oo", "baz", ""}

\* A workspace module of the list: its path tells the entries apart.
ModuleNamed(name) == [name |-> name, version |-> ZeroVersionStr, path |-> name]

InitGet ==
    /\ fn = "getModule"
    /\ pc = "start"
    /\ Idle
    /\ moduleRef \in ModuleRefs
    /\ \E names \in SeqsUpTo(ModuleNames, MaxModules) :
          workspaceModules = [i \in 1..Len(names) |-> ModuleNamed(names[i])]
    /\ found = NoModule
    /\ commits = <<>>
    /\ cursor = 0
    /\ diagnostics = <<>>
    /\ argNew = <<>>
    /\ argOld = <<>>
    /\ calcOut = Returned("none")
    /\ summary = NoSummary
    /\ module = NoModule
    /\ oldModule = NoModule
    /\ denoJson = <<>>
    /\ dryRun = FALSE
    /\ applyOut = NoApply
    /\ files = <<>>
    /\ given = NoGiven
    /\ versionBumps = <<>>
    /\ summaries = <<>>
    /\ commit = NoCommit
    /\ parsed = NoParsed
    /\ built = NoBuilt

CallGetModule ==
    /\ fn = "getModule"
    /\ pc = "start"
    /\ IdleFrame
    /\ found' = GetModule(moduleRef, workspaceModules)
    /\ pc' = "returned"
    /\ UNCHANGED <<fn, moduleRef, commits, cursor, diagnostics, argNew, argOld,
                   calcOut, summary, module, oldModule, denoJson, dryRun,
                   applyOut, files, given, versionBumps, summaries, commit,
                   workspaceModules, parsed, built>>

NextGet == CallGetModule

SpecGet == InitGet /\ [][NextGet]_vars

\* ------------------------------------------- bumpWorkspaces: commit loop

\* The number of digit tokens of s from position i on: \d+.
RECURSIVE DigitsFrom(_, _)
DigitsFrom(s, i) == IF i <= Len(s) /\ IsNumeric(s[i]) THEN 1 + DigitsFrom(s, i + 1) ELSE 0

\* \d+\.\d+\.\d+ matches s at position i.
MatchVersionAt(s, i) ==
    LET a == DigitsFrom(s, i)
        b == DigitsFrom(s, i + a + 1)
    IN  /\ a > 0
        /\ i + a <= Len(s) /\ s[i + a] = "."
        /\ b > 0
        /\ i + a + b + 1 <= Len(s) /\ s[i + a + b + 1] = "."
        /\ DigitsFrom(s, i + a + b + 2) > 0

\* /^v?\d+\.\d+\.\d+/.test(commit.subject)
IsVersionSubject(subject) ==
    IF subject # <<>> /\ subject[1] = "v" THEN MatchVersionAt(subject, 2)
    ELSE MatchVersionAt(subject, 1)

\* Release and a version literal, with or without v before the numbers.
IsReleaseSubjectWithV(subject) ==
    /\ Len(subject) >= 2 /\ subject[1] = "Release" /\ subject[2] = " "
    /\ IsVersionSubject(SubSeq(subject, 3, Len(subject)))

\* /^Release \d+\.\d+\.\d+/.test(commit.subject)
IsReleaseSubject(subject) ==
    /\ Len(subject) >= 2 /\ subject[1] = "Release" /\ subject[2] = " "
    /\ MatchVersionAt(subject, 3)

\* parseCommitMessage(commit): the loop passes the commit only, so inside
\* defaultParseCommitMessage workspaceModules is undefined.  It is read for
\* the wildcard scope alone, where undefined.map raises a TypeError.
ParseCommitMessage(commit_) ==
    LET match == ExecDefaultPattern(commit_.subject)
    IN  IF match.matched /\ match.hasModule /\ match.module = <<"*">>
        THEN [threw |-> TRUE, parsed |-> NoParsed]
        ELSE [threw |-> FALSE, parsed |-> DefaultParseCommitMessage(commit_, <<>>)]

\* The bumps of a parsed commit that checkModuleName lets through.
RECURSIVE KnownBumps(_, _)
KnownBumps(bumps, modules) ==
    IF bumps = <<>> THEN <<>>
    ELSE (IF CheckModuleName(Head(bumps), modules) = NoDiagnostic
          THEN <<Head(bumps)>> ELSE <<>>) \o KnownBumps(Tail(bumps), modules)

\* The diagnostics checkModuleName gives for the bumps of a parsed commit.
RECURSIVE UnknownRanges(_, _)
UnknownRanges(bumps, modules) ==
    IF bumps = <<>> THEN <<>>
    ELSE (IF CheckModuleName(Head(bumps), modules) = NoDiagnostic
          THEN <<>> ELSE <<CheckModuleName(Head(bumps), modules)>>)
         \o UnknownRanges(Tail(bumps), modules)

\* One turn of the loop `for (const commit of commits)` on the lists the
\* loop fills: st = [versionBumps, diagnostics, threw].
TakeCommit(st, commit_, modules) ==
    IF IsVersionSubject(commit_.subject) \/ IsReleaseSubject(commit_.subject) THEN st
    ELSE LET call == ParseCommitMessage(commit_)
         IN  IF call.threw THEN [st EXCEPT !.threw = TRUE]
             ELSE IF call.parsed.isArray
             THEN [st EXCEPT
                     !.versionBumps = @ \o KnownBumps(call.parsed.bumps, modules),
                     !.diagnostics = @ \o UnknownRanges(call.parsed.bumps, modules)]
             ELSE [st EXCEPT
                     !.diagnostics = Append(@, [type |-> call.parsed.type,
                                                commit |-> commit_.hash,
                                                module |-> ""])]

\* The loop over the commits cs from the lists st; it ends at a throw.
RECURSIVE RunLoop(_, _, _)
RunLoop(st, cs, modules) ==
    IF cs = <<>> \/ st.threw THEN st
    ELSE RunLoop(TakeCommit(st, Head(cs), modules), Tail(cs), modules)

\* ----------------------------------------------- specification SpecBump
\* bumpWorkspaces from the commits of the range to the summaries.

\* The subjects of the commits: bumps for known and unknown modules, the
\* wildcard, subjects without scope or shape, and version and release
\* subjects.
BumpSubjects ==
    {<<"fix", "(", "foo", ")", ":", " ", "msg">>,
     <<"feat", "(", "foo", ",", "nope", ")", ":", " ", "msg">>,
     <<"BREAKING", "(", "nope", ")", ":", " ", "msg">>,
     <<"feat", "(", "@scope/foo", ")", ":", " ", "msg">>,
     <<"fix", "(", "bar", ",", "bar", ")", ":", " ", "v", "1", ".", "2", ".", "3">>,
     <<"fix", "(", "*", ")", ":", " ", "msg">>,
     <<"chore", ":", " ", "msg">>,
     <<"random">>,
     <<"1", ".", "2", ".", "3">>,
     <<"v", "1", "0", ".", "2", ".", "3", " ", "msg">>,
     <<"v", "1", ".", "2">>,
     <<"Release", " ", "1", ".", "2", ".", "3">>,
     <<"Release", " ", "v", "1", ".", "2", ".", "3">>}

CommitHashes == <<"c1", "c2", "c3", "c4">>

\* A workspace module with its deno.json path.
BumpModule(name, v) == [name |-> name, version |-> v, path |-> name \o "/deno.json"]

V(major, minor, patch) ==
    <<FormatNumber(major), ".", FormatNumber(minor), ".", FormatNumber(patch)>>

\* The repositories the run is made on: the workspace modules at `base` and
\* at `start`, the two refs (`start` a tag, `base` a branch: in the third
\* the branch the run begins on, which is the default), the ref checked
\* out when the run begins, and whether the release note file exists.  In the first no version was edited; in the
\* second @scope/foo is a new module at 0.0.0; in the third foo was edited
\* from 0.1.0 to 1.0.0 by hand; in the fourth only build metadata was added
\* to the version of @scope/foo by hand.
BumpWorlds ==
    {[modules    |-> <<BumpModule("@scope/foo", V(1, 0, 0)), BumpModule("@scope/bar", V(0, 1, 0))>>,
      oldModules |-> <<BumpModule("@scope/foo", V(1, 0, 0)), BumpModule("@scope/bar", V(0, 1, 0))>>,
      start |-> "v1", base |-> "main", head |-> "work", noteExists |-> TRUE],
     [modules    |-> <<BumpModule("@scope/foo", V(0, 0, 0)), BumpModule("@scope/bar", V(0, 1, 0))>>,
      oldModules |-> <<BumpModule("@scope/bar", V(0, 1, 0))>>,
      start |-> "v1", base |-> "main", head |-> "work", noteExists |-> TRUE],
     [modules    |-> <<BumpModule("foo", V(1, 0, 0))>>,
      oldModules |-> <<BumpModule("foo", V(0, 1, 0))>>,
      start |-> "v1", base |-> "main", head |-> "main", noteExists |-> FALSE],
     [modules    |-> <<BumpModule("@scope/foo", V(1, 0, 0) \o <<"+", "b">>),
                       BumpModule("@scope/bar", V(0, 1, 0))>>,
      oldModules |-> <<BumpModule("@scope/foo", V(1, 0, 0)), BumpModule("@scope/bar", V(0, 1, 0))>>,
      start |-> "v1", base |-> "main", head |-> "work", noteExists |-> TRUE]}

\* The root deno.json: one import entry for each workspace module.
RootConfigOf(modules) ==
    [i \in 1..Len(modules) |->
        [name |-> modules[i].name, range |-> "^", version |-> modules[i].version]]

\* The module files: the version each deno.json holds, by path.
ModuleFilesOf(modules) ==
    [p \in {modules[i].path : i \in 1..Len(modules)} |->
        (CHOOSE mo \in {modules[i] : i \in 1..Len(modules)} : mo.path = p).version]

\* What the release note file holds before the run, when it exists.
EarlierNote == <<[name |-> "earlier", to |-> <<>>, diff |-> "none", commits |-> <<>>]>>

DryRunOptions == {"true", "false", "git"}

InitBump ==
    /\ fn = "bumpWorkspaces"
    /\ pc = "start"
    /\ \E w \in BumpWorlds :
          /\ workspaceModules = w.modules
          /\ oldModules = w.oldModules
          /\ head = w.head
          /\ files = ModuleFilesOf(w.modules)
          /\ disk = [root |-> RootConfigOf(w.modules), noteExists |-> w.noteExists,
                     note |-> IF w.noteExists THEN <<EarlierNote>> ELSE <<>>]
          /\ given = [files |-> files, disk |-> disk, head |-> head,
                      start |-> w.start, base |-> w.base, modules |-> w.modules]
    /\ dryRunOption \in DryRunOptions
    /\ previousHead = ""
    /\ commits = <<>>
    /\ cursor = 0
    /\ versionBumps = <<>>
    /\ diagnostics = <<>>
    /\ summaries = <<>>
    /\ denoJson = <<>>
    /\ updates = <<>>
    /\ applied = 0
    /\ credentials = NoCredentials
    /\ ops = <<>>
    /\ applyAgain = NoApply
    /\ moduleRef = ""
    /\ found = NoModule
    /\ argNew = <<>>
    /\ argOld = <<>>
    /\ calcOut = Returned("none")
    /\ summary = NoSummary
    /\ module = NoModule
    /\ oldModule = NoModule
    /\ dryRun = FALSE
    /\ applyOut = NoApply
    /\ commit = NoCommit
    /\ parsed = NoParsed
    /\ built = NoBuilt

\* What no step of bumpWorkspaces changes.
BumpFrame ==
    UNCHANGED <<fn, moduleRef, found, argNew, argOld, calcOut, summary, module,
                oldModule, dryRun, applyOut, applyAgain, commit, parsed, built,
                given, oldModules, dryRunOption>>

\* A git command, GitHub request or file write, with the ref the working
\* tree is on once it is done.
Op(name, arg, ref) == [op |-> name, arg |-> arg, head |-> ref]

\* await $`git checkout ${start}` and await $`git checkout ${base}`
Checkout(at, which, to) ==
    /\ fn = "bumpWorkspaces"
    /\ pc = at
    /\ head' = given[which]
    /\ previousHead' = head
    /\ ops' = Append(ops, Op("checkout", which, head'))
    /\ pc' = to
    /\ UNCHANGED <<commits, cursor, versionBumps, diagnostics, summaries,
                   workspaceModules, denoJson, files, disk, updates, applied,
                   credentials>>
    /\ BumpFrame

\* The run without the checkout back: the working tree stays where it is.
CheckoutBackOmitted(at, to) ==
    /\ fn = "bumpWorkspaces"
    /\ pc = at
    /\ pc' = to
    /\ UNCHANGED <<commits, cursor, versionBumps, diagnostics, summaries,
                   workspaceModules, denoJson, files, disk, updates, applied,
                   credentials, ops, head, previousHead>>
    /\ BumpFrame

\* await $`git checkout -`: back to the ref checked out before.
CheckoutBack(at, to) ==
    /\ fn = "bumpWorkspaces"
    /\ pc = at
    /\ head' = previousHead
    /\ previousHead' = head
    /\ ops' = Append(ops, Op("checkout", "-", previousHead))
    /\ pc' = to
    /\ UNCHANGED <<commits, cursor, versionBumps, diagnostics, summaries,
                   workspaceModules, denoJson, files, disk, updates, applied,
                   credentials>>
    /\ BumpFrame

\* await getWorkspaceModules(root): the modules of the ref checked out, or
\* Deno.exit(1) when the ref has no readable workspace config.
GetWorkspaceModules(at, to) ==
    /\ fn = "bumpWorkspaces"
    /\ pc = at
    /\ pc' \in {to, "exited"}
    /\ UNCHANGED <<commits, cursor, versionBumps, diagnostics, summaries,
                   workspaceModules, denoJson, files, disk, updates, applied,
                   credentials, ops, head, previousHead>>
    /\ BumpFrame

CheckoutStart == Checkout("start", "start", "at start")
ReadOldModules == GetWorkspaceModules("at start", "old modules read")
CheckoutBackFromStart == CheckoutBack("old modules read", "before base")
CheckoutBase == Checkout("before base", "base", "at base")
ReadModules == GetWorkspaceModules("at base", "modules read")
CheckoutBackFromBase == CheckoutBack("modules read", "before log")

\* git log start..base: the commits of the range.
ReadCommits ==
    /\ fn = "bumpWorkspaces"
    /\ pc = "before log"
    /\ \E subjects \in SeqsUpTo(BumpSubjects, MaxCommits) :
          commits' = [i \in 1..Len(subjects) |->
                         [hash |-> CommitHashes[i], subject |-> subjects[i]]]
    /\ ops' = Append(ops, Op("log", "start..base", head))
    /\ pc' = "loop"
    /\ UNCHANGED <<cursor, versionBumps, diagnostics, summaries,
                   workspaceModules, denoJson, files, disk, updates, applied,
                   credentials, head, previousHead>>
    /\ BumpFrame

\* One turn of the loop over the commits.
LoopCommit ==
    /\ fn = "bumpWorkspaces"
    /\ pc = "loop"
    /\ cursor < Len(commits)
    /\ LET st == TakeCommit([versionBumps |-> versionBumps,
                             diagnostics |-> diagnostics, threw |-> FALSE],
                            commits[cursor + 1], workspaceModules)
       IN  /\ versionBumps' = st.versionBumps
           /\ diagnostics' = st.diagnostics
           /\ pc' = IF st.threw THEN "threw" ELSE "loop"
    /\ cursor' = cursor + 1
    /\ UNCHANGED <<commits, summaries, workspaceModules, denoJson, files, disk,
                   updates, applied, credentials, ops, head, previousHead>>
    /\ BumpFrame

\* The test taken as never true.
NoVersionBumpsNever(summaries_) == FALSE

\* summaries.length === 0
NoVersionBumps(summaries_) == summaries_ = <<>>

\* After the loop: the summaries, the return when there are none, and the
\* root deno.json read for the second loop.
SummarizeBumps ==
    /\ fn = "bumpWorkspaces"
    /\ pc = "loop"
    /\ cursor = Len(commits)
    /\ summaries' = SummarizeVersionBumpsByModule(versionBumps)
    /\ pc' = IF NoVersionBumps(summaries') THEN "returned" ELSE "apply"
    /\ denoJson' = IF NoVersionBumps(summaries') THEN denoJson ELSE disk.root
    /\ UNCHANGED <<commits, cursor, versionBumps, diagnostics, workspaceModules,
                   files, disk, updates, applied, credentials, ops, head,
                   previousHead>>
    /\ BumpFrame

\* The option taken as never set.
DryRunNever == FALSE

\* dryRun === true
DryRunTrue == dryRunOption = "true"

\* The place in `modules` of the object getModule returns.
ModuleIndex(ref, modules) ==
    LET hits == {i \in 1..Len(modules) : GetModuleMatches(ref, modules[i])}
    IN  CHOOSE i \in hits : \A k \in hits : i <= k

\* updates[name] = update: a new key goes last, a key already there keeps
\* its place.
PutUpdate(updates_, update) ==
    IF \E i \in 1..Len(updates_) : updates_[i].name = update.name
    THEN [i \in 1..Len(updates_) |->
             IF updates_[i].name = update.name THEN update ELSE updates_[i]]
    ELSE Append(updates_, update)

\* One turn of the loop over the summaries.  A reference that getModule
\* does not find gives undefined, whose version cannot be read.
ApplySummary ==
    /\ fn = "bumpWorkspaces"
    /\ pc = "apply"
    /\ applied < Len(summaries)
    /\ LET s   == summaries[applied + 1]
           mo  == GetModule(s.module, workspaceModules)
           old == GetModule(s.module, oldModules)
           r   == ApplyVersionBump(s, mo, old, denoJson, DryRunTrue)
       IN  IF mo = NoModule \/ r.threw
           THEN /\ pc' = "threw"
                /\ UNCHANGED <<denoJson, updates, workspaceModules, summaries,
                               files, ops>>
           ELSE /\ pc' = "apply"
                /\ denoJson' = r.denoJson
                /\ updates' = PutUpdate(updates,
                                  [name |-> mo.name, from |-> r.from, to |-> r.to,
                                   diff |-> r.diff, path |-> mo.path,
                                   summary |-> r.summary])
                /\ workspaceModules' =
                       [workspaceModules EXCEPT
                           ![ModuleIndex(s.module, workspaceModules)] = r.module]
                /\ summaries' = [summaries EXCEPT ![applied + 1] = r.summary]
                /\ files' = IF r.wrote
                            THEN [files EXCEPT ![r.module.path] = r.module.version]
                            ELSE files
                /\ ops' = IF r.wrote
                          THEN Append(ops, Op("write", r.module.path, head))
                          ELSE ops
    /\ applied' = applied + 1
    /\ UNCHANGED <<commits, cursor, versionBumps, diagnostics, disk,
                   credentials, head, previousHead>>
    /\ BumpFrame

\* The release note: one entry for each update, in the order of the keys,
\* with a line for each commit of its summary (the commit stands for its
\* subject).
CreateReleaseNote(updates_, modules) ==
    [i \in 1..Len(updates_) |->
        [name |-> GetModule(updates_[i].summary.module, modules).name,
         to |-> updates_[i].to,
         diff |-> updates_[i].diff,
         commits |-> [k \in 1..Len(updates_[i].summary.commits) |->
                         updates_[i].summary.commits[k].commit]]]

\* dryRun === true: the release note is printed and nothing else is done.
SkipWrites ==
    /\ fn = "bumpWorkspaces"
    /\ pc = "apply"
    /\ applied = Len(summaries)
    /\ DryRunTrue
    /\ pc' = "done"
    /\ UNCHANGED <<commits, cursor, versionBumps, diagnostics, summaries,
                   workspaceModules, denoJson, files, disk, updates, applied,
                   credentials, ops, head, previousHead>>
    /\ BumpFrame

\* await Deno.writeTextFile(configPath, denoJson)
WriteRootConfig ==
    /\ fn = "bumpWorkspaces"
    /\ pc = "apply"
    /\ applied = Len(summaries)
    /\ ~DryRunTrue
    /\ disk' = [disk EXCEPT !.root = denoJson]
    /\ ops' = Append(ops, Op("write", "deno.json", head))
    /\ pc' = "root written"
    /\ UNCHANGED <<commits, cursor, versionBumps, diagnostics, summaries,
                   workspaceModules, denoJson, files, updates, applied,
                   credentials, head, previousHead>>
    /\ BumpFrame

\* ensureFile(releaseNotePath), then the release note written before the
\* content the file had.
PrependReleaseNote ==
    /\ fn = "bumpWorkspaces"
    /\ pc = "root written"
    /\ disk' = [disk EXCEPT !.noteExists = TRUE,
                            !.note = <<CreateReleaseNote(updates, workspaceModules)>>
                                     \o disk.note]
    /\ ops' = Append(ops, Op("write", "Releases.md", head))
    /\ pc' = IF dryRunOption = "false" THEN "credentials" ELSE "done"
    /\ UNCHANGED <<commits, cursor, versionBumps, diagnostics, summaries,
                   workspaceModules, denoJson, files, updates, applied,
                   credentials, head, previousHead>>
    /\ BumpFrame

CredentialNames == {"gitUserName", "gitUserEmail", "githubToken", "githubRepo"}

\* The four tests left out.
NoneUndefinedUnchecked(have) == TRUE

\* None of the four is undefined.
NoneUndefined(have) == have = CredentialNames

\* dryRun === false: each credential is the option or else the environment
\* variable; Deno.exit(1) at the first that is undefined.
ReadCredentials ==
    /\ fn = "bumpWorkspaces"
    /\ pc = "credentials"
    /\ \E have \in SUBSET CredentialNames :
          /\ credentials' = [read |-> TRUE, have |-> have]
          /\ pc' = IF NoneUndefined(have) THEN "branch" ELSE "exited"
    /\ UNCHANGED <<commits, cursor, versionBumps, diagnostics, summaries,
                   workspaceModules, denoJson, files, disk, updates, applied,
                   ops, head, previousHead>>
    /\ BumpFrame

\* A git command or GitHub request after the credentials: it is done and
\* the run goes on, or it fails and the run ends with its error.
GitStep(at, name, arg, to) ==
    /\ fn = "bumpWorkspaces"
    /\ pc = at
    /\ \/ /\ ops' = Append(ops, Op(name, arg, IF name = "checkout -b" THEN arg ELSE head))
          /\ head' = IF name = "checkout -b" THEN arg ELSE head
          /\ previousHead' = IF name = "checkout -b" THEN head ELSE previousHead
          /\ pc' = to
       \/ /\ pc' = "threw"
          /\ UNCHANGED <<ops, head, previousHead>>
    /\ UNCHANGED <<commits, cursor, versionBumps, diagnostics, summaries,
                   workspaceModules, denoJson, files, disk, updates, applied,
                   credentials>>
    /\ BumpFrame

CreateBranch == GitStep("branch", "checkout -b", "release", "add")
GitAdd == GitStep("add", "add", ".", "commit")
GitCommit == GitStep("commit", "commit", "chore: update versions", "push")
GitPush == GitStep("push", "push", "release", "pull request")
OpenPullRequest == GitStep("pull request", "pull request", "release", "done")

NextBump ==
    \/ CheckoutStart
    \/ ReadOldModules
    \/ CheckoutBackFromStart
    \/ CheckoutBase
    \/ ReadModules
    \/ CheckoutBackFromBase
    \/ ReadCommits
    \/ LoopCommit
    \/ SummarizeBumps
    \/ ApplySummary
    \/ SkipWrites
    \/ WriteRootConfig
    \/ PrependReleaseNote
    \/ ReadCredentials
    \/ CreateBranch
    \/ GitAdd
    \/ GitCommit
    \/ GitPush
    \/ OpenPullRequest

SpecBump == InitBump /\ [][NextBump]_vars

\* --------------------------------------------------- specification Spec
\* Every function of src/util.ts above, each applied to its inputs.

Init == InitCalc \/ InitApply \/ InitSum \/ InitParse \/ InitGet \/ InitBump

Next ==
    \/ CallCalcVersionDiff
    \/ CallApplyVersionBump
    \/ CallApplyVersionBumpAgain
    \/ CallSummarize
    \/ CallParseCommitMessage
    \/ CallGetModule
    \/ CheckoutStart
    \/ ReadOldModules
    \/ CheckoutBackFromStart
    \/ CheckoutBase
    \/ ReadModules
    \/ CheckoutBackFromBase
    \/ ReadCommits
    \/ LoopCommit
    \/ SummarizeBumps
    \/ ApplySummary
    \/ SkipWrites
    \/ WriteRootConfig
    \/ PrependReleaseNote
    \/ ReadCredentials
    \/ CreateBranch
    \/ GitAdd
    \/ GitCommit
    \/ GitPush
    \/ OpenPullRequest

Spec == Init /\ [][Next]_vars

\* ======================================================================
\* Properties of calcVersionDiff (specification SpecCalc)
\* ======================================================================

CalcCalled == pc # "start"
newV == ParseSemVer(argNew)
oldV == ParseSemVer(argOld)
SameCore(a, b) == a.major = b.major /\ a.minor = b.minor /\ a.patch = b.patch

\* C6: calcVersionDiff(new, old) is prerelease when new carries a prerelease,
\* whatever old is; otherwise it is the first of major, minor, patch whose
\* number differs between new and old, whether it grew or shrank.
C6_FirstDifference ==
    CalcCalled =>
        /\ newV.prerelease # <<>> => calcOut = Returned("prerelease")
        /\ newV.prerelease = <<>> /\ newV.major # oldV.major
              => calcOut = Returned("major")
        /\ newV.prerelease = <<>> /\ newV.major = oldV.major
              /\ newV.minor # oldV.minor
              => calcOut = Returned("minor")
        /\ newV.prerelease = <<>> /\ newV.major = oldV.major
              /\ newV.minor = oldV.minor /\ newV.patch # oldV.patch
              => calcOut = Returned("patch")

\* C6 witness: a release whose minor number shrank while its patch number
\* grew gives minor.
C6_Witness ==
    /\ pc = "returned"
    /\ newV.prerelease = <<>>
    /\ newV.major = oldV.major
    /\ newV.minor < oldV.minor
    /\ newV.patch > oldV.patch
    /\ calcOut.diff = "minor"

\* C7 as stated: when old has a prerelease, new has none and
\* major.minor.patch are equal, calcVersionDiff gives patch if patch is
\* non-zero, else minor if minor is non-zero, else major.
C7_PromotionAsStated ==
    CalcCalled /\ oldV.prerelease # <<>> /\ newV.prerelease = <<>>
               /\ SameCore(newV, oldV)
        => calcOut = Returned(IF newV.patch # 0 THEN "patch"
                              ELSE IF newV.minor # 0 THEN "minor"
                              ELSE "major")

\* C8 as stated: calcVersionDiff throws exactly when new has no prerelease,
\* major.minor.patch are equal and old has no prerelease either.
C8_ThrowsExactlyAsStated ==
    CalcCalled =>
        (calcOut.threw <=> /\ newV.prerelease = <<>>
                           /\ SameCore(newV, oldV)
                           /\ oldV.prerelease = <<>>)

\* ======================================================================
\* Properties of applyVersionBump (specification SpecApply)
\* ======================================================================

ApplyCalled == pc # "start"
curV == ParseSemVer(given.moduleVersion)
toV == ParseSemVer(applyOut.to)
NewModulePath == oldModule = NoModule
ManualPath == oldModule # NoModule /\ oldModule.version # given.moduleVersion
NormalPath == oldModule # NoModule /\ oldModule.version = given.moduleVersion

\* The semver increment of a release version, number by number.
CoreAfter(v, d) ==
    CASE d = "major" -> <<v.major + 1, 0, 0>>
      [] d = "minor" -> <<v.major, v.minor + 1, 0>>
      [] d = "patch" -> <<v.major, v.minor, v.patch + 1>>

Core(v) == <<v.major, v.minor, v.patch>>

\* C2: on the normal path, for a version 0.x.y without prerelease, major is
\* applied as minor, minor as patch and patch as patch, and `to` is the
\* current version incremented by the downgraded diff; for a version with
\* major >= 1 the diff is the summary's version.
C2_ZeroMajorDowngrade ==
    ApplyCalled /\ NormalPath /\ curV.prerelease = <<>> =>
        /\ ~applyOut.threw
        /\ curV.major = 0 =>
              /\ given.summaryVersion = "major" =>
                    applyOut.diff = "minor" /\ Core(toV) = <<0, curV.minor + 1, 0>>
              /\ given.summaryVersion \in {"minor", "patch"} =>
                    /\ applyOut.diff = "patch"
                    /\ Core(toV) = <<0, curV.minor, curV.patch + 1>>
        /\ curV.major >= 1 => applyOut.diff = given.summaryVersion

\* C2 witness: a major bump of a 0.x.y version returned as minor.
C2_Witness ==
    /\ pc = "returned" /\ NormalPath
    /\ curV.prerelease = <<>> /\ curV.major = 0 /\ curV.patch > 0
    /\ given.summaryVersion = "major"
    /\ applyOut.diff = "minor"
    /\ Core(toV) = <<0, curV.minor + 1, 0>>

\* C3 as stated: on the normal path, for a version with a prerelease, the diff
\* is prerelease, `to` keeps major.minor.patch, and a numeric prerelease
\* counter of the current version is one higher in `to`.
C3_CounterAsStated ==
    ApplyCalled /\ NormalPath /\ curV.prerelease # <<>> =>
        /\ applyOut.diff = "prerelease"
        /\ Core(toV) = Core(curV)
        /\ \E k \in 1..Len(curV.prerelease) :
              /\ curV.prerelease[k].isNum
              /\ toV.prerelease =
                    [curV.prerelease EXCEPT ![k] = NumId(curV.prerelease[k].n + 1)]

\* C3 amended: on the normal path, for a version with a prerelease and for
\* every summary version, the diff is prerelease and `to` keeps
\* major.minor.patch; the last numeric identifier of the prerelease is one
\* higher, and when no identifier is numeric the identifier 0 is appended.
C3_PrereleaseBump ==
    ApplyCalled /\ NormalPath /\ curV.prerelease # <<>> =>
        LET pre  == curV.prerelease
            nums == {k \in 1..Len(pre) : pre[k].isNum}
        IN  /\ ~applyOut.threw
            /\ applyOut.diff = "prerelease"
            /\ Core(toV) = Core(curV)
            /\ nums # {} =>
                  /\ Len(toV.prerelease) = Len(pre)
                  /\ \A k \in 1..Len(pre) :
                        toV.prerelease[k] =
                           IF k = Max(nums) THEN NumId(pre[k].n + 1) ELSE pre[k]
            /\ nums = {} => toV.prerelease = pre \o <<NumId(0)>>

\* C3 witness: a major bump of a 0.x.y prerelease with a counter.
C3_Witness ==
    /\ pc = "returned" /\ NormalPath
    /\ curV.major = 0
    /\ given.summaryVersion = "major"
    /\ curV.prerelease = <<StrId("rc"), NumId(1)>>
    /\ toV.prerelease = <<StrId("rc"), NumId(2)>>
    /\ applyOut.diff = "prerelease"

\* C4: when the snapshot at `start` has another version string than the
\* module, the result is from = the snapshot's version, to = the module's
\* version and diff = calcVersionDiff(current, prior), whatever the summary's
\* version; the module's version is not incremented and its file not written.
C4_ManualEdit ==
    ApplyCalled /\ ManualPath =>
        LET d == CalcVersionDiff(given.moduleVersion, oldModule.version)
        IN  /\ applyOut.threw = d.threw
            /\ module.version = given.moduleVersion
            /\ files[module.path] = given.moduleVersion
            /\ ~applyOut.threw =>
                  /\ applyOut.from = oldModule.version
                  /\ applyOut.to = given.moduleVersion
                  /\ applyOut.diff = d.diff

\* C4 witness: a manual edit to a prerelease, with a summary of major.
C4_Witness ==
    /\ pc = "returned" /\ ManualPath
    /\ given.summaryVersion = "major"
    /\ curV.prerelease # <<>>
    /\ applyOut.diff = "prerelease"
    /\ applyOut.to = given.moduleVersion
    /\ ~dryRun

\* C5 as stated: without a snapshot at `start`, applyVersionBump returns
\* from = 0.0.0, to = the module's version and diff = the difference of that
\* version against 0.0.0, for every version of the module, and never throws.
C5_NewModuleAsStated ==
    ApplyCalled /\ NewModulePath =>
        /\ ~applyOut.threw
        /\ applyOut.from = ZeroVersionStr
        /\ applyOut.to = given.moduleVersion
        /\ applyOut.diff = IF curV.prerelease # <<>> THEN "prerelease"
                           ELSE IF curV.major # 0 THEN "major"
                           ELSE IF curV.minor # 0 THEN "minor"
                           ELSE "patch"

\* C9: on the normal path, for a version without prerelease, `to` is the
\* semver increment of the current version by the returned diff: major gives
\* (major+1).0.0, minor gives major.(minor+1).0, patch gives
\* major.minor.(patch+1), and `to` has no prerelease.
C9_Increment ==
    ApplyCalled /\ NormalPath /\ curV.prerelease = <<>> =>
        /\ ~applyOut.threw
        /\ applyOut.diff \in {"major", "minor", "patch"}
        /\ Core(toV) = CoreAfter(curV, applyOut.diff)
        /\ toV.prerelease = <<>>
        /\ applyOut.from = given.moduleVersion
        /\ module.version = applyOut.to

\* C9 witness: a major bump of a version 1.x.y with x, y > 0.
C9_Witness ==
    /\ pc = "returned" /\ NormalPath
    /\ curV.prerelease = <<>> /\ curV.major = 1 /\ curV.minor > 0 /\ curV.patch > 0
    /\ applyOut.diff = "major"
    /\ Core(toV) = <<2, 0, 0>>

\* ======================================================================
\* Properties of summarizeVersionBumpsByModule (specification SpecSum)
\* ======================================================================

SumCalled == pc # "start"

ModulesOf(bumps) == {bumps[i].module : i \in 1..Len(bumps)}

VersionsOf(bumps, mo) == {bumps[i].version : i \in {j \in 1..Len(bumps) : bumps[j].module = mo}}

TagsOf(bumps, mo) == {bumps[i].tag : i \in {j \in 1..Len(bumps) : bumps[j].module = mo}}

\* The greatest of a set of versions, major > minor > patch.
Greatest(vs) ==
    IF "major" \in vs THEN "major" ELSE IF "minor" \in vs THEN "minor" ELSE "patch"

\* The versions the summaries give module mo (one, when it has one summary).
SummaryVersions(sums, mo) ==
    {sums[i].version : i \in {j \in 1..Len(sums) : sums[j].module = mo}}

\* The pairs (module, version) of the summaries.
VersionByModule(sums) == {<<sums[k].module, sums[k].version>> : k \in 1..Len(sums)}

\* The list with the bumps at i and j exchanged.  Every permutation of a list
\* is a chain of such exchanges, and every list of the chain is an input of
\* the specification.
Exchanged(bumps, i, j) ==
    [k \in 1..Len(bumps) |->
        IF k = i THEN bumps[j] ELSE IF k = j THEN bumps[i] ELSE bumps[k]]

\* C1: for every module of the version bumps, the summary's version is the
\* greatest (major > minor > patch) of the versions of the module's bumps, and
\* it is the same when any two bumps are exchanged, hence for every
\* permutation of the bumps; so it is major with a
\* BREAKING bump, otherwise minor with a feat bump, otherwise patch.
C1_MaxVersion ==
    SumCalled =>
        /\ \A mo \in ModulesOf(versionBumps) :
              /\ SummaryVersions(summaries, mo) = {Greatest(VersionsOf(versionBumps, mo))}
              /\ SummaryVersions(summaries, mo) =
                    {IF "BREAKING" \in TagsOf(versionBumps, mo) THEN "major"
                     ELSE IF "feat" \in TagsOf(versionBumps, mo) THEN "minor"
                     ELSE "patch"}
        /\ \A i, j \in 1..Len(versionBumps) :
              i < j => VersionByModule(SummarizeVersionBumpsByModule(
                                          Exchanged(versionBumps, i, j)))
                       = VersionByModule(summaries)

\* C1 witness: a module whose bumps are patch, then major, then minor.
C1_Witness ==
    /\ pc = "returned"
    /\ Len(versionBumps) = 3
    /\ \A i \in 1..3 : versionBumps[i].module = "foo"
    /\ <<versionBumps[1].version, versionBumps[2].version, versionBumps[3].version>>
          = <<"patch", "major", "minor">>
    /\ Len(summaries) = 1
    /\ summaries[1].version = "major"

\* ======================================================================
\* Properties of defaultParseCommitMessage (specification SpecParse)
\* ======================================================================

ParseCalled == pc # "start"

\* C10 as stated: for a subject kind(r1,...,rn): msg whose kind is in the tag
\* table and whose scope is not the wildcard, the result is a list of n
\* version bumps, the i-th for the reference ri, all with the kind as tag, the
\* commit, and the version the table gives the kind.
C10_BumpPerReferenceAsStated ==
    ParseCalled /\ built.kind \in Tags /\ built.refs # <<>> /\ built.refs # <<"*">> =>
        /\ parsed.isArray
        /\ Len(parsed.bumps) = Len(built.refs)
        /\ \A i \in 1..Len(parsed.bumps) :
              /\ parsed.bumps[i].module = built.refs[i]
              /\ parsed.bumps[i].tag = built.kind
              /\ parsed.bumps[i].commit = commit.hash
              /\ parsed.bumps[i].version =
                    (IF built.kind = "BREAKING" THEN "major"
                     ELSE IF built.kind = "feat" THEN "minor" ELSE "patch")

\* ======================================================================
\* Properties of defaultParseCommitMessage without a scope list, and with
\* a kind outside the tag table (specification SpecParse)
\* ======================================================================

\* C11: a subject kind: msg without a scope list, whose kind is a tag of the
\* table, gives a missing_range diagnostic for BREAKING, feat, fix, perf and
\* deprecation, a skipped_commit diagnostic for docs, style, refactor, test
\* and chore, and no version bump in either case.
C11_NoScope ==
    ParseCalled /\ built.kind \in Tags /\ built.refs = <<>> =>
        /\ ~parsed.isArray
        /\ parsed.bumps = <<>>
        /\ built.kind \in {"BREAKING", "feat", "fix", "perf", "deprecation"}
              => parsed.type = "missing_range"
        /\ built.kind \in {"docs", "style", "refactor", "test", "chore"}
              => parsed.type = "skipped_commit"

\* C11 witness: perf: (b,c): d is parsed to a missing_range diagnostic.
C11_Witness ==
    /\ ParseCalled
    /\ built.kind = "perf"
    /\ built.refs = <<>>
    /\ built.msg = <<"(", "b", ",", "c", ")", ":", " ", "d">>
    /\ parsed = Diagnostic("missing_range")

\* C12 as stated: a subject whose kind is not one of the ten tags of the
\* table gives an unknown_commit diagnostic, with a scope list, with the
\* wildcard scope and without a scope.
C12_UnknownKindAsStated ==
    ParseCalled /\ built.kind \notin Tags => parsed = Diagnostic("unknown_commit")

\* The version the tag table gives a tag.
VersionOfTag(tag) ==
    IF tag = "BREAKING" THEN "major" ELSE IF tag = "feat" THEN "minor" ELSE "patch"

\* C13 as stated: a subject kind(*): msg with a kind of the table gives, for
\* every list of workspace modules (the empty list too), a list with one
\* version bump per workspace module, in the order of the list, each with
\* the module's full name, the kind and the kind's version.
C13_WildcardAsStated ==
    ParseCalled /\ built.kind \in Tags /\ built.refs = <<"*">> =>
        /\ parsed.isArray
        /\ Len(parsed.bumps) = Len(workspaceModules)
        /\ \A i \in 1..Len(parsed.bumps) :
              /\ parsed.bumps[i].module = workspaceModules[i].name
              /\ parsed.bumps[i].tag = built.kind
              /\ parsed.bumps[i].version = VersionOfTag(built.kind)

\* ======================================================================
\* Properties of getModule (specification SpecGet)
\* ======================================================================

GetCalled == fn = "getModule" /\ pc = "returned"

\* The name is the reference, or some text followed by "/" and the reference.
NamedBy(name, ref) ==
    \/ name = ref
    \/ \E n \in 0..Len(name) : name = SubSeq(name, 1, n) \o "/" \o ref

\* C14: getModule(ref, modules) returns the first module of the list whose
\* name equals ref or ends with "/" + ref, and undefined when the list has
\* no such module.
C14_GetModule ==
    GetCalled =>
        /\ \A i \in 1..Len(workspaceModules) :
              /\ NamedBy(workspaceModules[i].name, moduleRef)
              /\ \A k \in 1..(i - 1) : ~NamedBy(workspaceModules[k].name, moduleRef)
              => found = workspaceModules[i]
        /\ (\A i \in 1..Len(workspaceModules) :
                ~NamedBy(workspaceModules[i].name, moduleRef))
              => found = NoModule

\* C14 witness: the reference foo, in a list that holds xfoo and then
\* @scope/foo, finds @scope/foo.
C14_Witness ==
    /\ GetCalled
    /\ moduleRef = "foo"
    /\ Len(workspaceModules) = 2
    /\ workspaceModules[1].name = "xfoo"
    /\ workspaceModules[2].name = "@scope/foo"
    /\ found = workspaceModules[2]

\* ======================================================================
\* Properties of the commit loop of bumpWorkspaces (specification SpecBump)
\* ======================================================================

LoopDone == fn = "bumpWorkspaces" /\ pc \in {"returned", "apply", "threw"}

\* The commit is left out by the loop's two subject tests.
Ignored(c) == IsVersionSubject(c.subject) \/ IsReleaseSubject(c.subject)

\* The version bumps the parser makes of the commits cs, in order.
RECURSIVE BumpsOf(_, _)
BumpsOf(cs, modules) ==
    IF cs = <<>> THEN <<>>
    ELSE LET p == DefaultParseCommitMessage(Head(cs), modules)
         IN  (IF ~Ignored(Head(cs)) /\ p.isArray THEN p.bumps ELSE <<>>)
             \o BumpsOf(Tail(cs), modules)

\* The bumps of a list whose module reference names a module, or names none.
RECURSIVE Resolved(_, _, _)
Resolved(bumps, modules, yes) ==
    IF bumps = <<>> THEN <<>>
    ELSE (IF (GetModule(Head(bumps).module, modules) # NoModule) = yes
          THEN <<Head(bumps)>> ELSE <<>>) \o Resolved(Tail(bumps), modules, yes)

UnknownRangeDiagnostics ==
    {i \in 1..Len(diagnostics) : diagnostics[i].type = "unknown_range_commit"}

\* C15 as stated: when the run is over, every version bump of the commits
\* whose reference names no workspace module has given one
\* unknown_range_commit diagnostic, none of them is in a summary, and the
\* summaries are those of the remaining version bumps of all commits.
C15_UnresolvedAsStated ==
    LoopDone =>
        LET all     == BumpsOf(commits, workspaceModules)
            unknown == Resolved(all, workspaceModules, FALSE)
            known   == Resolved(all, workspaceModules, TRUE)
        IN  /\ Cardinality(UnknownRangeDiagnostics) = Len(unknown)
            /\ \A k \in 1..Len(unknown) :
                  \E i \in UnknownRangeDiagnostics :
                      /\ diagnostics[i].commit = unknown[k].commit
                      /\ diagnostics[i].module = unknown[k].module
            /\ summaries = SummarizeVersionBumpsByModule(known)

\* A subject that begins with a version literal, or with Release and a
\* version literal with or without v.
VersionOrRelease(c) == IsVersionSubject(c.subject) \/ IsReleaseSubjectWithV(c.subject)

OtherCommit(c) == ~VersionOrRelease(c)

\* The loop run on the commits without the version and release commits.
WithoutVersionCommits ==
    RunLoop([versionBumps |-> <<>>, diagnostics |-> <<>>, threw |-> FALSE],
            SelectSeq(commits, OtherCommit), workspaceModules)

\* C16 as stated: a commit whose subject begins with a version literal, or
\* with Release and a version literal with or without v, gives no version
\* bump and no diagnostic, and the run ends with the version bumps, the
\* diagnostics and the summaries it has without these commits.
C16_IgnoredAsStated ==
    LoopDone =>
        /\ \A k \in 1..Len(commits) : VersionOrRelease(commits[k]) =>
              /\ \A i \in 1..Len(versionBumps) : versionBumps[i].commit # commits[k].hash
              /\ \A i \in 1..Len(diagnostics) : diagnostics[i].commit # commits[k].hash
        /\ versionBumps = WithoutVersionCommits.versionBumps
        /\ diagnostics = WithoutVersionCommits.diagnostics
        /\ (pc = "threw") = WithoutVersionCommits.threw
        /\ pc # "threw" =>
              summaries = SummarizeVersionBumpsByModule(WithoutVersionCommits.versionBumps)

\* ======================================================================
\* Properties of the summaries: commit order, module order, repeated
\* commits (specification SpecSum)
\* ======================================================================

\* The tag priority as the claim lists it.
ListedPriority ==
    <<"BREAKING", "feat", "deprecation", "fix", "perf", "docs", "style",
      "refactor", "test", "chore">>

ListedRank(tag) == CHOOSE i \in 1..Len(ListedPriority) : ListedPriority[i] = tag

\* The (commit, tag) pairs of the bumps of module mo that carry the tag, in
\* the order of the list.
RECURSIVE PairsOf(_, _, _)
PairsOf(bumps, mo, tag) ==
    IF bumps = <<>> THEN <<>>
    ELSE (IF Head(bumps).module = mo /\ Head(bumps).tag = tag
          THEN <<[commit |-> Head(bumps).commit, tag |-> tag]>> ELSE <<>>)
         \o PairsOf(Tail(bumps), mo, tag)

\* The pairs of a commit list that carry the tag, in the order of the list.
RECURSIVE TaggedOf(_, _)
TaggedOf(list, tag) ==
    IF list = <<>> THEN <<>>
    ELSE (IF Head(list).tag = tag THEN <<Head(list)>> ELSE <<>>)
         \o TaggedOf(Tail(list), tag)

\* C17: in every summary the commits are ordered by the tag priority
\* BREAKING, feat, deprecation, fix, perf, docs, style, refactor, test, chore
\* (the order of the table the sort reads), and the commits of one tag are
\* in the order in which their bumps occur in the input.
C17_CommitOrder ==
    SumCalled =>
        /\ TAG_PRIORITY = ListedPriority
        /\ \A k \in 1..Len(summaries) :
              /\ \A i, j \in 1..Len(summaries[k].commits) :
                    i < j => ListedRank(summaries[k].commits[i].tag)
                             <= ListedRank(summaries[k].commits[j].tag)
              /\ \A tag \in BumpTags :
                    TaggedOf(summaries[k].commits, tag)
                    = PairsOf(versionBumps, summaries[k].module, tag)

\* C17 witness: the bumps fix of c2, BREAKING of c1, fix of c1 of one module
\* give the commits BREAKING c1, fix c2, fix c1.
C17_Witness ==
    /\ SumCalled
    /\ Len(versionBumps) = 3
    /\ \A i \in 1..3 : versionBumps[i].module = "foo"
    /\ <<versionBumps[1].tag, versionBumps[2].tag, versionBumps[3].tag>>
          = <<"fix", "BREAKING", "fix">>
    /\ <<versionBumps[1].commit, versionBumps[2].commit, versionBumps[3].commit>>
          = <<"c2", "c1", "c1">>
    /\ summaries[1].commits
          = <<[commit |-> "c1", tag |-> "BREAKING"], [commit |-> "c2", tag |-> "fix"],
              [commit |-> "c1", tag |-> "fix"]>>

\* The module strings of the inputs in ascending order of their UTF-16 code
\* units ("@" is 0x40, "f" is 0x66).
LexicalOrder == <<"@scope/foo", "foo">>

LexicalRank(mo) == CHOOSE i \in 1..Len(LexicalOrder) : LexicalOrder[i] = mo

ModuleSeq(sums) == [k \in 1..Len(sums) |-> sums[k].module]

C19_DeduplicatedAsStated ==
    SumCalled =>
        \A k \in 1..Len(summaries) :
            \A i, j \in 1..Len(summaries[k].commits) :
                i < j => summaries[k].commits[i].commit # summaries[k].commits[j].commit

\* ======================================================================
\* Properties of defaultParseCommitMessage on an unstable scope
\* (specification SpecParse)
\* ======================================================================

\* C20 as stated: a subject whose scope is foo/unstable or unstable/foo, with
\* a kind of the table, gives one version bump whose module is foo, whose
\* tag is the kind and whose version is patch.
C20_UnstableAsStated ==
    ParseCalled /\ built.kind \in Tags
                /\ built.refs \in {<<"foo/unstable">>, <<"unstable/foo">>}
                /\ built.msg = <<"msg">>
        => /\ parsed.isArray
           /\ Len(parsed.bumps) = 1
           /\ parsed.bumps[1].module = "foo"
           /\ parsed.bumps[1].tag = built.kind
           /\ parsed.bumps[1].version = "patch"

\* ======================================================================
\* Properties of applyVersionBump: the root config text, a second call,
\* the direction of the update (specification SpecApply)
\* ======================================================================

\* C23 as stated: on the normal path the text returned has the new version
\* in every import entry name@<range char><current version> of the bumped
\* module and leaves the entries of the other modules as they are; on the
\* new-module and manual paths the text is returned unchanged.
C23_ImportsAsStated ==
    ApplyCalled /\ ~applyOut.threw =>
        /\ Len(applyOut.denoJson) = Len(denoJson)
        /\ NormalPath =>
              \A i \in 1..Len(denoJson) :
                  /\ denoJson[i].name = module.name
                        /\ denoJson[i].version = given.moduleVersion
                     => applyOut.denoJson[i] = [denoJson[i] EXCEPT !.version = applyOut.to]
                  /\ denoJson[i].name # module.name => applyOut.denoJson[i] = denoJson[i]
        /\ ~NormalPath => applyOut.denoJson = denoJson

\* C26: a second call of applyVersionBump with the module object the first
\* call left, the same snapshot and a summary of any version returns the
\* from, to and diff of the first call and leaves the module's version as
\* the first call left it.
C26_SecondCall ==
    fn = "applyVersionBump" /\ pc \in {"returned again", "threw again"} =>
        /\ pc = "returned again"
        /\ applyAgain.from = applyOut.from
        /\ applyAgain.to = applyOut.to
        /\ applyAgain.diff = applyOut.diff
        /\ module.version = applyOut.to

\* C26 witness: the first call moved 0.1.0 to 0.2.0 for a major summary, and
\* the second call gave 0.1.0, 0.2.0 and minor again.
C26_Witness ==
    /\ fn = "applyVersionBump"
    /\ pc = "returned again"
    /\ NormalPath
    /\ given.summaryVersion = "major"
    /\ given.moduleVersion = <<"0", ".", "1", ".", "0">>
    /\ applyOut.to = <<"0", ".", "2", ".", "0">>
    /\ applyAgain.from = <<"0", ".", "1", ".", "0">>
    /\ applyAgain.to = <<"0", ".", "2", ".", "0">>
    /\ applyAgain.diff = "minor"

fromV == ParseSemVer(applyOut.from)

\* Precedence of two prerelease identifiers: a number comes before a word,
\* numbers by value; the words of the inputs are all rc.
IdBefore(a, b) ==
    \/ a.isNum /\ ~b.isNum
    \/ a.isNum /\ b.isNum /\ a.n < b.n

\* Precedence of two prerelease lists: the first identifier that differs
\* decides, and a list comes before the lists it begins.
PrereleaseBefore(p, q) ==
    \/ \E i \in 1..Len(p) :
          /\ i <= Len(q)
          /\ \A k \in 1..(i - 1) : p[k] = q[k]
          /\ IdBefore(p[i], q[i])
    \/ Len(p) < Len(q) /\ \A k \in 1..Len(p) : p[k] = q[k]

\* Semantic-version precedence: a comes strictly before b.
Before(a, b) ==
    \/ a.major < b.major
    \/ a.major = b.major /\ a.minor < b.minor
    \/ a.major = b.major /\ a.minor = b.minor /\ a.patch < b.patch
    \/ /\ SameCore(a, b)
       /\ \/ a.prerelease # <<>> /\ b.prerelease = <<>>
          \/ /\ a.prerelease # <<>> /\ b.prerelease # <<>>
             /\ PrereleaseBefore(a.prerelease, b.prerelease)

\* C27 as stated: in every result of applyVersionBump `to` is strictly
\* greater than `from` in semantic-version precedence.
C27_ForwardAsStated ==
    fn = "applyVersionBump" /\ pc = "returned" => Before(fromV, toV)

\* C27 amended: on the normal path `to` is strictly greater than `from`; on
\* the manual path and for a new module `to` is the module's version as
\* given and `from` the snapshot's version or 0.0.0, whichever of the two is
\* the greater.
C27_ForwardOnNormalPath ==
    fn = "applyVersionBump" /\ pc = "returned" =>
        /\ NormalPath => Before(fromV, toV)
        /\ ~NormalPath =>
              /\ applyOut.to = given.moduleVersion
              /\ applyOut.from = IF NewModulePath THEN ZeroVersionStr
                                 ELSE oldModule.version

\* C27 witness: a manual update from 1.0.0 down to 0.1.0 is returned with
\* the diff major.
C27_Witness ==
    /\ fn = "applyVersionBump"
    /\ pc = "returned"
    /\ ManualPath
    /\ applyOut.from = <<"1", ".", "0", ".", "0">>
    /\ applyOut.to = <<"0", ".", "1", ".", "0">>
    /\ applyOut.diff = "major"

\* ======================================================================
\* Properties of the whole run of bumpWorkspaces (specification SpecBump)
\* ======================================================================

\* The ref the working tree was on before the i-th logged operation.
HeadBefore(i) == IF i = 1 THEN given.head ELSE ops[i - 1].head

OpsNamed(names) == {i \in 1..Len(ops) : ops[i].op \in names}

\* C30: each checkout of `start` and of `base` is followed, before any other
\* git operation, by a checkout back to the ref the tree was on before it;
\* the commits are listed and every file is written on the ref the run began
\* on.
C30_CheckoutBack ==
    fn = "bumpWorkspaces" =>
        /\ \A i \in OpsNamed({"checkout"}) :
              (ops[i].arg \in {"start", "base"} /\ i < Len(ops)) =>
                  /\ ops[i + 1].op = "checkout"
                  /\ ops[i + 1].arg = "-"
                  /\ ops[i + 1].head = HeadBefore(i)
        /\ \A i \in OpsNamed({"log", "write"}) : ops[i].head = given.head
        /\ pc \in {"before log", "loop", "apply", "root written", "credentials"} =>
              head = given.head

\* C30 witness: a run begun on a ref other than `start` and `base` that has
\* made both checkouts, listed the commits and written the three files.
C30_Witness ==
    /\ fn = "bumpWorkspaces"
    /\ pc = "done"
    /\ given.head \notin {given.start, given.base}
    /\ \E i \in OpsNamed({"checkout"}) : ops[i].arg = "start" /\ ops[i].head = given.start
    /\ \E i \in OpsNamed({"checkout"}) : ops[i].arg = "base" /\ ops[i].head = given.base
    /\ OpsNamed({"log"}) # {}
    /\ {ops[i].arg : i \in OpsNamed({"write"})}
           = {"@scope/bar/deno.json", "deno.json", "Releases.md"}

\* What the run has done to the files and the repository.
FilesAsGiven == files = given.files /\ disk = given.disk

Published == OpsNamed({"checkout -b", "add", "commit", "push", "pull request"})

C28_NoBumps ==
    /\ (fn = "bumpWorkspaces" /\ versionBumps = <<>>) =>
          /\ summaries = <<>>
          /\ FilesAsGiven
          /\ OpsNamed({"write"}) = {}
          /\ Published = {}
          /\ ~credentials.read
          /\ pc \in {"start", "at start", "old modules read", "before base",
                     "at base", "modules read", "before log", "loop", "exited",
                     "threw", "returned"}
    /\ (fn = "bumpWorkspaces" /\ pc = "returned") => versionBumps = <<>>

\* C28 witness: a run with dryRun = false that read commits, none of which
\* gave a bump of a known module, and returned.
C28_Witness ==
    /\ fn = "bumpWorkspaces"
    /\ dryRunOption = "false"
    /\ pc = "returned"
    /\ Len(commits) = MaxCommits
    /\ Len(diagnostics) = MaxCommits
    /\ versionBumps = <<>>

PublishingOrder == <<"checkout -b", "add", "commit", "push", "pull request">>

IsPublishing(o) == o.op \in {"checkout -b", "add", "commit", "push", "pull request"}

\* The publishing steps done so far, in the order they were done.
PublishedSteps ==
    LET done == SelectSeq(ops, IsPublishing)
    IN  [i \in 1..Len(done) |-> done[i].op]

\* C29: a branch is created and something is committed or pushed only with
\* dryRun = false and the four credentials all available; the steps done
\* are, in order, create branch, add, commit, push, open pull request, each
\* once, so the pull request is requested only after the push.
C29_Publish ==
    fn = "bumpWorkspaces" =>
        /\ PublishedSteps # <<>> =>
              /\ dryRunOption = "false"
              /\ credentials.read
              /\ credentials.have = CredentialNames
        /\ Len(PublishedSteps) <= Len(PublishingOrder)
        /\ PublishedSteps = SubSeq(PublishingOrder, 1, Len(PublishedSteps))
        /\ (credentials.read /\ credentials.have # CredentialNames) => pc = "exited"

\* C29 witness: a run with dryRun = false that opened the pull request.
C29_Witness ==
    /\ fn = "bumpWorkspaces"
    /\ dryRunOption = "false"
    /\ pc = "done"
    /\ credentials.have = CredentialNames
    /\ PublishedSteps = PublishingOrder
    /\ ops[Len(ops)].op = "pull request"

\* The run is over: it returned, threw or exited.
RunOver == pc \in {"done", "returned", "threw", "exited"}

\* The modules that the version bumps of the commits resolve to.
BumpedModules ==
    {GetModule(versionBumps[i].module, given.modules).name : i \in 1..Len(versionBumps)}

Written == {ops[i].arg : i \in OpsNamed({"write"})}

\* C22 as stated: a run with dryRun = "git" whose commits gave at least one
\* bump of a known module has, when it is over, written the deno.json of
\* every bumped module, the root deno.json and the release note before the
\* previous content of its file, and has created no branch, commit, push or
\* pull request and read no credential.
C22_GitDryRunAsStated ==
    (fn = "bumpWorkspaces" /\ dryRunOption = "git" /\ RunOver /\ BumpedModules # {}) =>
        /\ \A name \in BumpedModules : (name \o "/deno.json") \in Written
        /\ "deno.json" \in Written
        /\ "Releases.md" \in Written
        /\ Len(disk.note) = Len(given.disk.note) + 1
        /\ SubSeq(disk.note, 2, Len(disk.note)) = given.disk.note
        /\ Published = {}
        /\ ~credentials.read

\* applyVersionBump threw in the loop over the summaries: the only throws
\* after the summaries are made and before the credentials are read.
ApplyThrewInRun ==
    /\ fn = "bumpWorkspaces"
    /\ pc = "threw"
    /\ summaries # <<>>
    /\ ~credentials.read
    /\ dryRunOption = "false" => "Releases.md" \notin Written

\* C25 as stated: with dryRun not true, when applyVersionBump has thrown for
\* a module of the run, no file has been modified: no module deno.json, no
\* root deno.json and no release note.
C25_AtomicAsStated ==
    (ApplyThrewInRun /\ dryRunOption # "true") =>
        /\ FilesAsGiven
        /\ Written = {}

\* The version bumps that reach the module of this name, by any reference.
BumpsReaching(name) ==
    {k \in 1..Len(versionBumps) :
        GetModule(versionBumps[k].module, given.modules).name = name}

MaxSeverity(ks) ==
    IF \E k \in ks : versionBumps[k].version = "major" THEN "major"
    ELSE IF \E k \in ks : versionBumps[k].version = "minor" THEN "minor"
    ELSE "patch"

ApplyLoopOver ==
    /\ fn = "bumpWorkspaces"
    /\ pc \in {"apply", "root written", "credentials", "branch", "add",
               "commit", "push", "pull request", "done"}
    /\ applied = Len(summaries)

\* C24 as stated: after the loop over the summaries, the update of each
\* module lists the commits of all the bumps that reach the module by any
\* reference and, when the module's version was not edited by hand, goes
\* from the module's version by one increment of the maximum severity of
\* those bumps.
C24_AliasesAsStated ==
    ApplyLoopOver =>
        \A i \in 1..Len(updates) :
            LET ks  == BumpsReaching(updates[i].name)
                was == GetModule(updates[i].name, given.modules).version
                d   == FinalDiff(ParseSemVer(was), MaxSeverity(ks))
                cs  == updates[i].summary.commits
            IN  /\ {cs[j].commit : j \in 1..Len(cs)} = {versionBumps[k].commit : k \in ks}
                /\ GetModule(updates[i].name, oldModules).version = was =>
                      /\ updates[i].from = was
                      /\ updates[i].diff = d
                      /\ updates[i].to = FormatSemver(Increment(ParseSemVer(was), d))

====
